---- MODULE Spec2Model ----
(***************************************************************************)
(* A model of the typed register-access layer of the riscv workspace:      *)
(*   - riscv/src/index.rs             RangedIndex<MIN, MAX>                *)
(*   - riscv/src/register/mcountinhibit.rs   the mcountinhibit CSR         *)
(*   - riscv/src/register/tests/read_only_csr.rs   the Mtest register      *)
(*   - riscv-peripheral/src/macros.rs CLINT and PLIC enable/pending API    *)
(* Each part has its own specification over its own variables; the         *)
(* variables of the other parts stay at their initial values.              *)
(***************************************************************************)
EXTENDS Integers, FiniteSets, Sequences, TLC

VARIABLES
    \* ---- RangedIndex (index.rs)
    MIN,        \* the const generic parameter MIN of the instantiated type
    MAX,        \* the const generic parameter MAX of the instantiated type
    ridx,       \* the RangedIndex instance held by the caller: its field .0
    made,       \* how ridx was obtained: [op, arg]
    tres,       \* the Result of the last try_from call
    inner,      \* the value the last into_inner call returned
    \* ---- Mcountinhibit (mcountinhibit.rs)
    m,          \* the in-memory Mcountinhibit value: its field bits
    csr,        \* the contents of the hardware CSR 0x320
    steps,      \* number of operations performed so far
    panicked,   \* TRUE once an assertion failed
    mlast,      \* the last operation: [op, idx, val, pre_m, pre_csr]
    \* ---- Mtest (tests/read_only_csr.rs)
    mtest,      \* the in-memory Mtest value: its field bits
    mt_raw,     \* the raw word last handed to Mtest::from_bits
    mt_out,     \* the last getter call and what it returned: [op, idx, ret]
    \* ---- CLINT / PLIC (riscv-peripheral macros.rs)
    mie,        \* the machine interrupt-enable CSR: the set of its 1 bits
    mip,        \* the machine interrupt-pending CSR: the set of its 1 bits
    pc,         \* position inside a running CLINT::enable / CLINT::disable
    ilast       \* the last completed operation: [op, pre_mie, pre_mip, ret]

idxVars == <<MIN, MAX, ridx, made, tres, inner>>
mcVars  == <<m, csr, steps, panicked, mlast>>
mtVars  == <<mtest, mt_raw, mt_out>>
irqVars == <<mie, mip, pc, ilast>>
vars    == <<idxVars, mcVars, mtVars, irqVars>>

(***************************************************************************)
(* Bounds of the model.                                                    *)
(***************************************************************************)
MaxBound == 4      \* MIN and MAX range over 0..MaxBound
MaxVal == 6        \* raw index values range over 0..MaxVal
MaxOps == 2        \* operations on mcountinhibit per behaviour
MaxRawBits == 13   \* Mtest::from_bits is given every word of this many bits

(***************************************************************************)
(* error.rs                                                                *)
(***************************************************************************)
OutOfBounds == "OutOfBounds"

Ok(x) == [ok |-> TRUE, val |-> x]
Err(e) == [ok |-> FALSE, err |-> e]

(***************************************************************************)
(* index.rs: RangedIndex<MIN, MAX>(usize)                                  *)
(***************************************************************************)
\* RangedIndex::new
RangedIndex_new(lo, hi) == lo

\* a slip in the second arm: clamps to the wrong bound
from_inner_wrong_bound(val, lo, hi) ==
    IF val <= lo THEN lo
    ELSE IF val >= hi THEN lo
    ELSE val

\* RangedIndex::from_inner: the match arms in order
from_inner(val, lo, hi) ==
    IF val <= lo THEN lo
    ELSE IF val >= hi THEN hi
    ELSE val

\* RangedIndex::into_inner
into_inner(self) == self

\* a slip: the half-open range MIN..MAX in place of MIN..=MAX
try_from_half_open(val, lo, hi) ==
    IF lo <= val /\ val < hi THEN Ok(val) ELSE Err(OutOfBounds)

\* <RangedIndex as TryFrom<usize>>::try_from
try_from(val, lo, hi) ==
    IF lo <= val /\ val <= hi THEN Ok(val) ELSE Err(OutOfBounds)

NoCall == [op |-> "none", arg |-> 0]
NoInner == [valid |-> FALSE, val |-> 0]
NoResult == [called |-> FALSE, arg |-> 0, res |-> Err(OutOfBounds)]

IdxIdle ==
    /\ MIN = 0 /\ MAX = 0 /\ ridx = 0
    /\ made = NoCall /\ tres = NoResult /\ inner = NoInner

\* any instantiation RangedIndex<MIN, MAX>; the instance starts as new()
IdxInit ==
    /\ MIN \in 0..MaxBound
    /\ MAX \in 0..MaxBound
    /\ ridx = RangedIndex_new(MIN, MAX)
    /\ made = [op |-> "new", arg |-> 0]
    /\ tres = NoResult
    /\ inner = NoInner

IdxFrame == UNCHANGED <<mcVars, mtVars, irqVars>>

FromInner(v) ==
    /\ IdxFrame
    /\ ridx' = from_inner(v, MIN, MAX)
    /\ made' = [op |-> "from_inner", arg |-> v]
    /\ inner' = NoInner
    /\ UNCHANGED <<MIN, MAX, tres>>

\* let r = RangedIndex::try_from(v); the instance is replaced when r is Ok
TryFrom(v) ==
    /\ IdxFrame
    /\ tres' = [called |-> TRUE, arg |-> v, res |-> try_from(v, MIN, MAX)]
    /\ IF tres'.res.ok
       THEN /\ ridx' = tres'.res.val
            /\ made' = [op |-> "try_from", arg |-> v]
            /\ inner' = NoInner
       ELSE UNCHANGED <<ridx, made, inner>>
    /\ UNCHANGED <<MIN, MAX>>

IntoInner ==
    /\ IdxFrame
    /\ inner' = [valid |-> TRUE, val |-> into_inner(ridx)]
    /\ UNCHANGED <<MIN, MAX, ridx, made, tres>>

IdxNext ==
    \/ \E v \in 0..MaxVal : FromInner(v)
    \/ \E v \in 0..MaxVal : TryFrom(v)
    \/ IntoInner


(***************************************************************************)
(* Machine words of the CSR layer.  A word is represented by the set of    *)
(* the positions of its 1 bits: 1 << p is {p}, a | b is the union, a & b   *)
(* the intersection and a & !b the difference.                             *)
(***************************************************************************)
Shl1(p) == {p}

\* the field getter of a single-bit field: (bits >> P) & 1 != 0
bf_extract_bit(bits, p) == p \in bits

\* the field setter of a single-bit field: bits | (1 << P) or bits & !(1 << P)
bf_insert_bit(bits, p, val) ==
    IF val THEN bits \cup Shl1(p) ELSE bits \ Shl1(p)

\* the csrrs / csrrc primitives behind _set and _clear
csr_set_bits(c, mask) == c \cup mask
csr_clear_bits(c, mask) == c \ mask

(***************************************************************************)
(* mcountinhibit.rs: the field layout of read_write_csr!(Mcountinhibit)    *)
(***************************************************************************)
CY_BIT == 0
IR_BIT == 2
HPM_START == 3
HPM_END == 31

Mcountinhibit_cy(bits) == bf_extract_bit(bits, CY_BIT)
Mcountinhibit_ir(bits) == bf_extract_bit(bits, IR_BIT)

\* hpm(index): the index must lie in the declared range, or the call faults
Mcountinhibit_hpm(bits, index) ==
    IF HPM_START <= index /\ index <= HPM_END
    THEN [panic |-> FALSE, ret |-> bf_extract_bit(bits, index)]
    ELSE [panic |-> TRUE, ret |-> FALSE]

Mcountinhibit_set_cy(bits, val) == bf_insert_bit(bits, CY_BIT, val)
Mcountinhibit_set_ir(bits, val) == bf_insert_bit(bits, IR_BIT, val)

\* a slip: the setter of the repeated field ignores its index
Mcountinhibit_set_hpm_first_bit(bits, index, val) ==
    IF HPM_START <= index /\ index <= HPM_END
    THEN [panic |-> FALSE, bits |-> bf_insert_bit(bits, HPM_START, val)]
    ELSE [panic |-> TRUE, bits |-> bits]

Mcountinhibit_set_hpm(bits, index, val) ==
    IF HPM_START <= index /\ index <= HPM_END
    THEN [panic |-> FALSE, bits |-> bf_insert_bit(bits, index, val)]
    ELSE [panic |-> TRUE, bits |-> bits]

\* set_clear_csr!(set_cy, clear_cy, 1 << 0)
set_cy(c) == csr_set_bits(c, Shl1(0))
clear_cy(c) == csr_clear_bits(c, Shl1(0))
\* set_clear_csr!(set_ir, clear_ir, 1 << 2)
set_ir(c) == csr_set_bits(c, Shl1(2))
clear_ir(c) == csr_clear_bits(c, Shl1(2))

\* a slip: the assertion admits every bit of the register
set_hpm_wide_assert(c, index) ==
    IF 0 <= index /\ index < 32
    THEN [panic |-> FALSE, csr |-> csr_set_bits(c, Shl1(index))]
    ELSE [panic |-> TRUE, csr |-> c]

\* pub unsafe fn set_hpm(index): assert!((3..32).contains(&index)); _set(1 << index)
set_hpm(c, index) ==
    IF 3 <= index /\ index < 32
    THEN [panic |-> FALSE, csr |-> csr_set_bits(c, Shl1(index))]
    ELSE [panic |-> TRUE, csr |-> c]

\* pub unsafe fn clear_hpm(index): assert!((3..32).contains(&index)); _clear(1 << index)
clear_hpm(c, index) ==
    IF 3 <= index /\ index < 32
    THEN [panic |-> FALSE, csr |-> csr_clear_bits(c, Shl1(index))]
    ELSE [panic |-> TRUE, csr |-> c]

\* the indices handed to hpm, set_hpm and clear_hpm
IndexInputs == {0, 1, 2, 3, 4, 31, 32}

\* words the hardware register may hold when the program starts
CsrInitWords == { {}, {0, 2}, {3, 31}, {0, 2} \cup (3..31) }
\* words an in-memory value may be built from
MemInitWords == CsrInitWords \cup { {1, 4, 30}, 0..31 }

McOp(op, idx, val) ==
    [op |-> op, idx |-> idx, val |-> val, pre_m |-> m, pre_csr |-> csr]

McIdle ==
    /\ m = {} /\ csr = {} /\ steps = 0 /\ panicked = FALSE
    /\ mlast = [op |-> "none", idx |-> 0, val |-> FALSE, pre_m |-> {}, pre_csr |-> {}]

McInit ==
    /\ m \in MemInitWords
    /\ csr \in CsrInitWords
    /\ steps = 0
    /\ panicked = FALSE
    /\ mlast = McOp("none", 0, FALSE)

\* every operation is one more step; none runs after a fault
McStep ==
    /\ ~panicked
    /\ steps < MaxOps
    /\ steps' = steps + 1
    /\ UNCHANGED <<idxVars, mtVars, irqVars>>

\* ---- the in-memory setters of a Mcountinhibit value
MemSetCy_writes_through(val) ==
    /\ McStep
    /\ m' = Mcountinhibit_set_cy(m, val)
    /\ csr' = m'
    /\ mlast' = McOp("Mcountinhibit::set_cy", CY_BIT, val)
    /\ UNCHANGED panicked

MemSetCy(val) ==
    /\ McStep
    /\ m' = Mcountinhibit_set_cy(m, val)
    /\ mlast' = McOp("Mcountinhibit::set_cy", CY_BIT, val)
    /\ UNCHANGED <<csr, panicked>>

MemSetIr(val) ==
    /\ McStep
    /\ m' = Mcountinhibit_set_ir(m, val)
    /\ mlast' = McOp("Mcountinhibit::set_ir", IR_BIT, val)
    /\ UNCHANGED <<csr, panicked>>

MemSetHpm(index, val) ==
    /\ McStep
    /\ LET r == Mcountinhibit_set_hpm(m, index, val)
       IN  /\ m' = r.bits
           /\ panicked' = r.panic
    /\ mlast' = McOp("Mcountinhibit::set_hpm", index, val)
    /\ UNCHANGED csr

\* ---- read(): a fresh in-memory value holding the CSR's contents
McRead ==
    /\ McStep
    /\ m' = csr
    /\ mlast' = McOp("read", 0, FALSE)
    /\ UNCHANGED <<csr, panicked>>

\* ---- the module-level helpers, which act on the CSR
CsrSetCy ==
    /\ McStep
    /\ csr' = set_cy(csr)
    /\ mlast' = McOp("set_cy", 0, TRUE)
    /\ UNCHANGED <<m, panicked>>

CsrClearCy ==
    /\ McStep
    /\ csr' = clear_cy(csr)
    /\ mlast' = McOp("clear_cy", 0, FALSE)
    /\ UNCHANGED <<m, panicked>>

CsrSetIr ==
    /\ McStep
    /\ csr' = set_ir(csr)
    /\ mlast' = McOp("set_ir", 2, TRUE)
    /\ UNCHANGED <<m, panicked>>

CsrClearIr ==
    /\ McStep
    /\ csr' = clear_ir(csr)
    /\ mlast' = McOp("clear_ir", 2, FALSE)
    /\ UNCHANGED <<m, panicked>>

CsrSetHpm(index) ==
    /\ McStep
    /\ LET r == set_hpm(csr, index)
       IN  /\ csr' = r.csr
           /\ panicked' = r.panic
    /\ mlast' = McOp("set_hpm", index, TRUE)
    /\ UNCHANGED m

CsrClearHpm(index) ==
    /\ McStep
    /\ LET r == clear_hpm(csr, index)
       IN  /\ csr' = r.csr
           /\ panicked' = r.panic
    /\ mlast' = McOp("clear_hpm", index, FALSE)
    /\ UNCHANGED m

McNext ==
    \/ \E v \in BOOLEAN : MemSetCy(v)
    \/ \E v \in BOOLEAN : MemSetIr(v)
    \/ \E i \in IndexInputs, v \in BOOLEAN : MemSetHpm(i, v)
    \/ McRead
    \/ CsrSetCy
    \/ CsrClearCy
    \/ CsrSetIr
    \/ CsrClearIr
    \/ \E i \in IndexInputs : CsrSetHpm(i)
    \/ \E i \in IndexInputs : CsrClearHpm(i)


(***************************************************************************)
(* tests/read_only_csr.rs: the read-only register Mtest.  Its words are    *)
(* small enough to be kept as numbers, with the shifts and masks done by   *)
(* arithmetic.                                                             *)
(***************************************************************************)
Pow2(n) == 2 ^ n

\* the contiguous bits [start, start + len) of a word: (bits >> start) & ((1 << len) - 1)
bf_extract(bits, start, len) == (bits \div Pow2(start)) % Pow2(len)

\* mask: 0b1111_1111_1111
MTEST_BITMASK == 4095
\* the field layout, as declared
SINGLE_BIT == 0
MULTI_RANGE_START == 1
MULTI_RANGE_END == 3
MULTI_FIELD_START == 4
MULTI_FIELD_END == 7
FIELD_ENUM_START == 7
FIELD_ENUM_END == 11

\* MtestFieldEnum: Field1 = 1, Field2 = 2, Field3 = 3, Field4 = 15; default: Field1
MtestFieldEnum == { <<1, "Field1">>, <<2, "Field2">>, <<3, "Field3">>, <<15, "Field4">> }
MtestFieldEnum_default == "Field1"

InvalidFieldVariant(field, value) ==
    [kind |-> "InvalidFieldVariant", field |-> field, value |-> value]

\* the decoding of an integer through the table of variants
MtestFieldEnum_from_usize(n) ==
    IF \E p \in MtestFieldEnum : p[1] = n
    THEN Ok((CHOOSE p \in MtestFieldEnum : p[1] = n)[2])
    ELSE Err(InvalidFieldVariant("field_enum", n))

\* Mtest::from_bits: keeps the word as it is given
Mtest_from_bits(raw) == raw
\* Mtest::bits
Mtest_bits(bits) == bits
\* Mtest::bitmask
Mtest_bitmask(bits) == MTEST_BITMASK

Mtest_single(bits) == bf_extract(bits, SINGLE_BIT, 1) # 0
Mtest_try_single(bits) == Ok(Mtest_single(bits))

Mtest_multi_range(bits, index) ==
    IF MULTI_RANGE_START <= index /\ index <= MULTI_RANGE_END
    THEN [panic |-> FALSE, ret |-> bf_extract(bits, index, 1) # 0]
    ELSE [panic |-> TRUE, ret |-> FALSE]

\* a slip: the end of the range [4:7] taken as exclusive
Mtest_multi_field_short(bits) ==
    bf_extract(bits, MULTI_FIELD_START, MULTI_FIELD_END - MULTI_FIELD_START)

\* multi_field, range: [4:7]
Mtest_multi_field(bits) ==
    bf_extract(bits, MULTI_FIELD_START, MULTI_FIELD_END - MULTI_FIELD_START + 1)
Mtest_try_multi_field(bits) == Ok(Mtest_multi_field(bits))

\* a slip: the error reports the whole word above the field's start
Mtest_try_field_enum_raw_value(bits) ==
    LET r == MtestFieldEnum_from_usize(
                 bf_extract(bits, FIELD_ENUM_START, FIELD_ENUM_END - FIELD_ENUM_START + 1))
    IN  IF r.ok THEN r
        ELSE Err(InvalidFieldVariant("field_enum", bits \div Pow2(FIELD_ENUM_START)))

\* try_field_enum, range: [7:11]
Mtest_try_field_enum(bits) ==
    MtestFieldEnum_from_usize(
        bf_extract(bits, FIELD_ENUM_START, FIELD_ENUM_END - FIELD_ENUM_START + 1))

\* field_enum: the decoded variant, or the default when none matches
Mtest_field_enum(bits) ==
    LET r == Mtest_try_field_enum(bits)
    IN  IF r.ok THEN r.val ELSE MtestFieldEnum_default

\* the words a Mtest value is first built from: every word of MaxRawBits bits
RawInputs == 0..(Pow2(MaxRawBits) - 1)
\* the words the test hands to from_bits later on: 0, 1, 1 << i, 0xf << 4,
\* 0x3 << 4, 0xff << 4, each variant << 7 and 0xbad << 7
TestWords == {0, 1, 2, 4, 8, 15 * 16, 3 * 16, 255 * 16,
              1 * 128, 2 * 128, 3 * 128, 15 * 128, 2989 * 128}

MtNoCall == [op |-> "none", idx |-> 0, ret |-> 0]

MtIdle == mtest = 0 /\ mt_raw = 0 /\ mt_out = MtNoCall

\* let mut mtest = Mtest::from_bits(raw)
MtInit ==
    /\ mt_raw \in RawInputs
    /\ mtest = Mtest_from_bits(mt_raw)
    /\ mt_out = MtNoCall

MtFrame == UNCHANGED <<idxVars, mcVars, irqVars>>

FromBits(raw) ==
    /\ MtFrame
    /\ mt_raw' = raw
    /\ mtest' = Mtest_from_bits(raw)
    /\ mt_out' = MtNoCall

MtCall(op, idx, ret) ==
    /\ MtFrame
    /\ mt_out' = [op |-> op, idx |-> idx, ret |-> ret]
    /\ UNCHANGED <<mtest, mt_raw>>

GetBits == MtCall("bits", 0, Mtest_bits(mtest))
GetBitmask == MtCall("bitmask", 0, Mtest_bitmask(mtest))
GetSingle == MtCall("single", 0, Mtest_single(mtest))
GetMultiRange(i) == MtCall("multi_range", i, Mtest_multi_range(mtest, i))
GetMultiField == MtCall("multi_field", 0, Mtest_multi_field(mtest))
TryMultiField == MtCall("try_multi_field", 0, Mtest_try_multi_field(mtest))
GetFieldEnum == MtCall("field_enum", 0, Mtest_field_enum(mtest))
TryFieldEnum == MtCall("try_field_enum", 0, Mtest_try_field_enum(mtest))

MtNext ==
    \/ \E raw \in TestWords : FromBits(raw)
    \/ GetBits
    \/ GetBitmask
    \/ GetSingle
    \/ \E i \in 0..4 : GetMultiRange(i)
    \/ GetMultiField
    \/ TryMultiField
    \/ GetFieldEnum
    \/ TryFieldEnum


(***************************************************************************)
(* The mie and mip CSRs, as the peripheral macros use them: named bits     *)
(* read through read() and changed through set_<bit> / clear_<bit>.  A     *)
(* register is represented by the set of the names of its 1 bits; ssoft    *)
(* stands for the bits the CLINT and PLIC handles never name.              *)
(***************************************************************************)
IrqBits == {"ssoft", "msoft", "mtimer", "mext"}

\* mie::read().msoft() and the like
reg_msoft(w) == "msoft" \in w
reg_mtimer(w) == "mtimer" \in w
reg_mext(w) == "mext" \in w

set_msoft(ie) == ie \cup {"msoft"}
clear_msoft(ie) == ie \ {"msoft"}
set_mtimer(ie) == ie \cup {"mtimer"}
clear_mtimer(ie) == ie \ {"mtimer"}
set_mext(ie) == ie \cup {"mext"}
clear_mext(ie) == ie \ {"mext"}

(***************************************************************************)
(* riscv-peripheral/src/macros.rs: clint_codegen!, impl CLINT              *)
(***************************************************************************)
mswi_is_interrupting(ip) == reg_msoft(ip)
mtimer_is_interrupting(ip) == reg_mtimer(ip)

\* a slip: && in place of ||
CLINT_is_interrupting_both(ip) ==
    mswi_is_interrupting(ip) /\ mtimer_is_interrupting(ip)

CLINT_is_interrupting(ip) ==
    mswi_is_interrupting(ip) \/ mtimer_is_interrupting(ip)

mswi_is_enabled(ie) == reg_msoft(ie)
mtimer_is_enabled(ie) == reg_mtimer(ie)

CLINT_is_enabled(ie) == mswi_is_enabled(ie) \/ mtimer_is_enabled(ie)

mswi_enable(ie) == set_msoft(ie)

\* a slip: the software half clears the timer bit as well
mswi_disable_both(ie) == clear_mtimer(clear_msoft(ie))

mswi_disable(ie) == clear_msoft(ie)

\* a slip: the timer half enables the software interrupt once more
mtimer_enable_msoft(ie) == set_msoft(ie)

mtimer_enable(ie) == set_mtimer(ie)
mtimer_disable(ie) == clear_mtimer(ie)

(***************************************************************************)
(* riscv-peripheral/src/macros.rs: plic_codegen!, impl PLIC                *)
(***************************************************************************)
PLIC_is_interrupting(ip) == reg_mext(ip)
PLIC_is_enabled(ie) == reg_mext(ie)
PLIC_enable(ie) == set_mext(ie)
PLIC_disable(ie) == clear_mext(ie)

IrqOp(op, ret) == [op |-> op, pre_mie |-> mie, pre_mip |-> mip, ret |-> ret]
Idle == [at |-> "idle", pre_mie |-> {}, pre_mip |-> {}]

IrqIdle ==
    /\ mie = {} /\ mip = {} /\ pc = Idle
    /\ ilast = [op |-> "none", pre_mie |-> {}, pre_mip |-> {}, ret |-> FALSE]

\* the reset values of mie and mip are not fixed by this layer
IrqInit ==
    /\ mie \in SUBSET IrqBits
    /\ mip \in SUBSET IrqBits
    /\ pc = Idle
    /\ ilast = IrqOp("none", FALSE)

IrqFrame == UNCHANGED <<idxVars, mcVars, mtVars>>

\* a slip: the two halves of enable() in the other order
ClintEnableFirst_timer_first ==
    /\ IrqFrame
    /\ pc.at = "idle"
    /\ mie' = mtimer_enable(mie)
    /\ pc' = [at |-> "enable", pre_mie |-> mie, pre_mip |-> mip]
    /\ ilast' = IrqOp("CLINT::enable:mswi_enable", FALSE)
    /\ UNCHANGED mip

\* ---- CLINT::enable: mswi_enable(), then mtimer_enable()
ClintEnableFirst ==
    /\ IrqFrame
    /\ pc.at = "idle"
    /\ mie' = mswi_enable(mie)
    /\ pc' = [at |-> "enable", pre_mie |-> mie, pre_mip |-> mip]
    /\ ilast' = IrqOp("CLINT::enable:mswi_enable", FALSE)
    /\ UNCHANGED mip

ClintEnableSecond ==
    /\ IrqFrame
    /\ pc.at = "enable"
    /\ mie' = mtimer_enable(mie)
    /\ pc' = Idle
    /\ ilast' = [op |-> "CLINT::enable", pre_mie |-> pc.pre_mie,
                 pre_mip |-> pc.pre_mip, ret |-> FALSE]
    /\ UNCHANGED mip

\* ---- CLINT::disable: mswi_disable(), then mtimer_disable()
ClintDisableFirst ==
    /\ IrqFrame
    /\ pc.at = "idle"
    /\ mie' = mswi_disable(mie)
    /\ pc' = [at |-> "disable", pre_mie |-> mie, pre_mip |-> mip]
    /\ ilast' = IrqOp("CLINT::disable:mswi_disable", FALSE)
    /\ UNCHANGED mip

ClintDisableSecond ==
    /\ IrqFrame
    /\ pc.at = "disable"
    /\ mie' = mtimer_disable(mie)
    /\ pc' = Idle
    /\ ilast' = [op |-> "CLINT::disable", pre_mie |-> pc.pre_mie,
                 pre_mip |-> pc.pre_mip, ret |-> FALSE]
    /\ UNCHANGED mip

\* ---- the single-instruction operations of the main program
IrqWrite(op, ie) ==
    /\ IrqFrame
    /\ mie' = ie
    /\ ilast' = IrqOp(op, FALSE)
    /\ UNCHANGED <<mip, pc>>

MswiEnable == pc.at = "idle" /\ IrqWrite("CLINT::mswi_enable", mswi_enable(mie))
MswiDisable == pc.at = "idle" /\ IrqWrite("CLINT::mswi_disable", mswi_disable(mie))
MtimerEnable == pc.at = "idle" /\ IrqWrite("CLINT::mtimer_enable", mtimer_enable(mie))
MtimerDisable == pc.at = "idle" /\ IrqWrite("CLINT::mtimer_disable", mtimer_disable(mie))

\* ---- PLIC operations; an interrupt handler may run them between the two
\* ---- halves of CLINT::enable and CLINT::disable
PlicEnable == IrqWrite("PLIC::enable", PLIC_enable(mie))
PlicDisable == IrqWrite("PLIC::disable", PLIC_disable(mie))

\* ---- the queries; they too may run between the two halves
IrqQuery(op, ret) ==
    /\ IrqFrame
    /\ ilast' = IrqOp(op, ret)
    /\ UNCHANGED <<mie, mip, pc>>

ClintIsInterrupting == IrqQuery("CLINT::is_interrupting", CLINT_is_interrupting(mip))
ClintIsEnabled == IrqQuery("CLINT::is_enabled", CLINT_is_enabled(mie))
PlicIsInterrupting == IrqQuery("PLIC::is_interrupting", PLIC_is_interrupting(mip))
PlicIsEnabled == IrqQuery("PLIC::is_enabled", PLIC_is_enabled(mie))
MswiIsEnabled == IrqQuery("CLINT::mswi_is_enabled", mswi_is_enabled(mie))
MtimerIsEnabled == IrqQuery("CLINT::mtimer_is_enabled", mtimer_is_enabled(mie))

\* ---- the hardware raises or withdraws a pending interrupt
HwPending(b) ==
    /\ IrqFrame
    /\ mip' = IF b \in mip THEN mip \ {b} ELSE mip \cup {b}
    /\ ilast' = IrqOp("hw", FALSE)
    /\ UNCHANGED <<mie, pc>>

IrqNext ==
    \/ ClintEnableFirst
    \/ ClintEnableSecond
    \/ ClintDisableFirst
    \/ ClintDisableSecond
    \/ MswiEnable
    \/ MswiDisable
    \/ MtimerEnable
    \/ MtimerDisable
    \/ PlicEnable
    \/ PlicDisable
    \/ ClintIsInterrupting
    \/ ClintIsEnabled
    \/ PlicIsInterrupting
    \/ PlicIsEnabled
    \/ MswiIsEnabled
    \/ MtimerIsEnabled
    \/ \E b \in IrqBits : HwPending(b)

(***************************************************************************)
(* The specifications, one per part.                                       *)
(***************************************************************************)
IdxSpecInit == IdxInit /\ McIdle /\ MtIdle /\ IrqIdle
IdxSpec == IdxSpecInit /\ [][IdxNext]_vars

McSpecInit == IdxIdle /\ McInit /\ MtIdle /\ IrqIdle
McSpec == McSpecInit /\ [][McNext]_vars

MtSpecInit == IdxIdle /\ McIdle /\ MtInit /\ IrqIdle
MtSpec == MtSpecInit /\ [][MtNext]_vars

IrqSpecInit == IdxIdle /\ McIdle /\ MtIdle /\ IrqInit
IrqSpec == IrqSpecInit /\ [][IrqNext]_vars

(***************************************************************************)
(* Properties of RangedIndex, under IdxSpec.                               *)
(***************************************************************************)
\* what the value read back after from_inner(v) has to be: inside [lo, hi],
\* lo when v < lo, hi when v > hi, v otherwise
IsClamped(r, v, lo, hi) ==
    /\ lo <= r /\ r <= hi
    /\ v < lo => r = lo
    /\ v > hi => r = hi
    /\ (lo <= v /\ v <= hi) => r = v

\* C1, as stated: for every MIN, MAX and v, from_inner(v).into_inner() lies
\* in [MIN, MAX] and equals clamp(v, MIN, MAX).
C1_ClampEveryPair ==
    (inner.valid /\ made.op = "from_inner")
        => IsClamped(inner.val, made.arg, MIN, MAX)

\* C1, amended: for every MIN <= MAX and every v, from_inner(v).into_inner()
\* lies in [MIN, MAX] and equals clamp(v, MIN, MAX).
C1_ClampOrderedBounds ==
    (inner.valid /\ made.op = "from_inner" /\ MIN <= MAX)
        => IsClamped(inner.val, made.arg, MIN, MAX)

\* C1 witness: a value above MAX was clamped down to MAX and read back
C1_Witness ==
    /\ inner.valid /\ made.op = "from_inner"
    /\ 0 < MIN /\ MIN < MAX /\ made.arg > MAX
    /\ inner.val = MAX

\* C2: try_from(v) is Ok with into_inner() = v when MIN <= v <= MAX, and is
\* Err(OutOfBounds) exactly when v < MIN or v > MAX; an instance built by
\* try_from satisfies MIN <= value <= MAX.
C2_TryFromExact ==
    /\ tres.called =>
        /\ (MIN <= tres.arg /\ tres.arg <= MAX) => tres.res = Ok(tres.arg)
        /\ (~tres.res.ok) <=> (tres.arg < MIN \/ tres.arg > MAX)
        /\ (~tres.res.ok) => tres.res = Err(OutOfBounds)
    /\ made.op = "try_from" =>
        /\ MIN <= ridx /\ ridx <= MAX
        /\ ridx = made.arg
        /\ inner.valid => inner.val = made.arg

\* C2 witness: one call succeeded and its value was read back, and a later
\* call with a value above MAX failed
C2_Witness ==
    /\ made.op = "try_from" /\ inner.valid /\ inner.val = made.arg
    /\ MIN < made.arg
    /\ tres.called /\ ~tres.res.ok /\ tres.arg > MAX

(***************************************************************************)
(* Properties of Mcountinhibit and of the mcountinhibit CSR, under McSpec. *)
(***************************************************************************)
MemSetters ==
    {"Mcountinhibit::set_cy", "Mcountinhibit::set_ir", "Mcountinhibit::set_hpm"}
CsrHelpers ==
    {"set_cy", "clear_cy", "set_ir", "clear_ir", "set_hpm", "clear_hpm"}

\* word `after` is word `before` with exactly bit p replaced by val
OneBitReplaced(after, before, p, val) ==
    \A b \in after \cup before \cup {p} :
        (b \in after) <=> (IF b = p THEN val ELSE b \in before)

\* C3: set_cy(v) (bit 0), set_ir(v) (bit 2) and set_hpm(i, v) (bit i, i in
\* 3..=31) replace exactly that one bit of bits by v: the matching getter
\* then returns v and every other bit, hence every other getter, is as before.
C3_SetterReplacesOneBit ==
    /\ mlast.op = "Mcountinhibit::set_cy" =>
        /\ OneBitReplaced(m, mlast.pre_m, 0, mlast.val)
        /\ Mcountinhibit_cy(m) = mlast.val
        /\ Mcountinhibit_ir(m) = Mcountinhibit_ir(mlast.pre_m)
        /\ \A j \in 3..31 :
               Mcountinhibit_hpm(m, j) = Mcountinhibit_hpm(mlast.pre_m, j)
    /\ mlast.op = "Mcountinhibit::set_ir" =>
        /\ OneBitReplaced(m, mlast.pre_m, 2, mlast.val)
        /\ Mcountinhibit_ir(m) = mlast.val
        /\ Mcountinhibit_cy(m) = Mcountinhibit_cy(mlast.pre_m)
        /\ \A j \in 3..31 :
               Mcountinhibit_hpm(m, j) = Mcountinhibit_hpm(mlast.pre_m, j)
    /\ (mlast.op = "Mcountinhibit::set_hpm" /\ mlast.idx \in 3..31) =>
        /\ ~panicked
        /\ OneBitReplaced(m, mlast.pre_m, mlast.idx, mlast.val)
        /\ Mcountinhibit_hpm(m, mlast.idx) = [panic |-> FALSE, ret |-> mlast.val]
        /\ Mcountinhibit_cy(m) = Mcountinhibit_cy(mlast.pre_m)
        /\ Mcountinhibit_ir(m) = Mcountinhibit_ir(mlast.pre_m)
        /\ \A j \in (3..31) \ {mlast.idx} :
               Mcountinhibit_hpm(m, j) = Mcountinhibit_hpm(mlast.pre_m, j)

\* C3 witness: after an earlier operation, set_hpm(31, false) cleared bit 31
\* of a value that also had bits 0 and 30 set
C3_Witness ==
    /\ mlast.op = "Mcountinhibit::set_hpm" /\ mlast.idx = 31 /\ ~mlast.val
    /\ steps = 2 /\ ~panicked
    /\ {0, 30, 31} \subseteq mlast.pre_m
    /\ 31 \notin m /\ 30 \in m

\* C6: the in-memory setters never write the CSR; only the module-level
\* helpers change it, and those leave the in-memory value alone.
C6_MemoryAndCsrApart ==
    /\ mlast.op \in MemSetters => csr = mlast.pre_csr
    /\ csr # mlast.pre_csr => mlast.op \in CsrHelpers
    /\ mlast.op \in CsrHelpers => m = mlast.pre_m

\* C6 witness: a helper had changed the CSR, then an in-memory setter changed
\* the value and the CSR kept what the helper wrote
C6_Witness ==
    /\ mlast.op = "Mcountinhibit::set_cy" /\ m # mlast.pre_m
    /\ steps = 2
    /\ csr \notin CsrInitWords /\ csr = mlast.pre_csr /\ csr # m

\* C9: set_hpm(index) and clear_hpm(index) check index in [3, 31] first: in
\* range they set (clear) exactly CSR bit index, out of range they fault
\* without a CSR write; bits 0 and 2 never change through them.
C9_HpmHelpersAssertRange ==
    /\ mlast.op = "set_hpm" =>
        IF mlast.idx \in 3..31
        THEN ~panicked /\ OneBitReplaced(csr, mlast.pre_csr, mlast.idx, TRUE)
        ELSE panicked /\ csr = mlast.pre_csr
    /\ mlast.op = "clear_hpm" =>
        IF mlast.idx \in 3..31
        THEN ~panicked /\ OneBitReplaced(csr, mlast.pre_csr, mlast.idx, FALSE)
        ELSE panicked /\ csr = mlast.pre_csr
    /\ mlast.op \in {"set_hpm", "clear_hpm"} =>
        /\ (0 \in csr) <=> (0 \in mlast.pre_csr)
        /\ (2 \in csr) <=> (2 \in mlast.pre_csr)

\* C9 witness: set_hpm(31) set bit 31, then set_hpm(2) faulted and bit 2 of
\* the CSR stayed clear
C9_Witness ==
    /\ mlast.op = "set_hpm" /\ mlast.idx = 2 /\ panicked
    /\ steps = 2
    /\ 31 \in csr /\ 2 \notin csr /\ csr \notin CsrInitWords

(***************************************************************************)
(* Properties of Mtest, under MtSpec.                                      *)
(***************************************************************************)
\* n is the number written in the len bits of word raw that start at bit
\* start: what is left of raw below it is less than 2^start, and what is
\* left above it is a multiple of 2^(start + len)
IsFieldOf(n, raw, start, len) ==
    /\ 0 <= n /\ n < Pow2(len)
    /\ (raw - n * Pow2(start) - (raw % Pow2(start))) % Pow2(start + len) = 0

\* C4: for every raw word given to from_bits, multi_field() is the 4-bit
\* number at bits 4..7 and try_multi_field() is Ok of it; a written x < 16
\* reads back as x, a written x >= 16 as x mod 16; bits() is the raw word.
C4_MultiFieldTruncates ==
    /\ mt_out.op = "multi_field" =>
        /\ IsFieldOf(mt_out.ret, mt_raw, 4, 4)
        /\ mt_raw % 16 = 0 =>
             LET x == mt_raw \div 16
             IN  mt_out.ret = IF x < 16 THEN x ELSE x % 16
    /\ mt_out.op = "try_multi_field" =>
        /\ mt_out.ret.ok
        /\ IsFieldOf(mt_out.ret.val, mt_raw, 4, 4)
    /\ mt_out.op = "bits" => mt_out.ret = mt_raw

\* C4 witness: from_bits(0xff << 4), then multi_field() returned 0xf
C4_Witness ==
    /\ mt_out.op = "multi_field"
    /\ mt_raw = 255 * 16
    /\ mt_out.ret = 15

VariantOf(n) ==
    CASE n = 1 -> "Field1" [] n = 2 -> "Field2" [] n = 3 -> "Field3"
      [] n = 15 -> "Field4" [] OTHER -> "none"

MtestFieldBits ==
    [single      |-> {SINGLE_BIT},
     multi_range |-> MULTI_RANGE_START..MULTI_RANGE_END,
     multi_field |-> MULTI_FIELD_START..MULTI_FIELD_END,
     field_enum  |-> FIELD_ENUM_START..FIELD_ENUM_END]
McountinhibitFieldBits ==
    [cy  |-> {CY_BIT},
     ir  |-> {IR_BIT},
     hpm |-> HPM_START..HPM_END]

LayoutDisjoint(layout) ==
    \A f, g \in DOMAIN layout : f # g => layout[f] \cap layout[g] = {}

\* C10: in every declared layout no bit position belongs to two fields,
\* the fields of Mcountinhibit lie inside the 32-bit register and the
\* fields of Mtest inside its mask.
C10_FieldsDisjointInWidth ==
    /\ LayoutDisjoint(McountinhibitFieldBits)
    /\ \A f \in DOMAIN McountinhibitFieldBits :
           McountinhibitFieldBits[f] \subseteq 0..31
    /\ LayoutDisjoint(MtestFieldBits)
    /\ \A f \in DOMAIN MtestFieldBits :
           \A b \in MtestFieldBits[f] : bf_extract(Mtest_bitmask(mtest), b, 1) = 1

(***************************************************************************)
(* Properties of CLINT and PLIC, under IrqSpec.                            *)
(***************************************************************************)
\* C7: CLINT::is_interrupting() is true iff the software or the timer
\* pending bit is set, PLIC::is_interrupting() iff the external pending bit
\* is set, and neither query changes a pending or an enable bit.
C7_IsInterrupting ==
    /\ ilast.op = "CLINT::is_interrupting" =>
        /\ ilast.ret <=> (("msoft" \in mip) \/ ("mtimer" \in mip))
        /\ mie = ilast.pre_mie /\ mip = ilast.pre_mip
    /\ ilast.op = "PLIC::is_interrupting" =>
        /\ ilast.ret <=> ("mext" \in mip)
        /\ mie = ilast.pre_mie /\ mip = ilast.pre_mip

\* C7 witness: with only the external interrupt pending, the CLINT query
\* returned false
C7_Witness ==
    /\ ilast.op = "CLINT::is_interrupting"
    /\ ~ilast.ret
    /\ mip = {"mext"}

\* C8: a completed CLINT::enable() leaves the software and the timer enable
\* bits set, a completed CLINT::disable() leaves both clear;
\* CLINT::is_enabled() is true iff one of the two is set; likewise for PLIC
\* with the external enable bit.
C8_EnableDisable ==
    /\ ilast.op = "CLINT::enable" =>
        /\ "msoft" \in mie /\ "mtimer" \in mie
        /\ CLINT_is_enabled(mie)
    /\ ilast.op = "CLINT::disable" =>
        /\ "msoft" \notin mie /\ "mtimer" \notin mie
        /\ ~CLINT_is_enabled(mie)
    /\ CLINT_is_enabled(mie) <=> (("msoft" \in mie) \/ ("mtimer" \in mie))
    /\ ilast.op = "CLINT::is_enabled" =>
        (ilast.ret <=> (("msoft" \in mie) \/ ("mtimer" \in mie)))
    /\ ilast.op = "PLIC::enable" => ("mext" \in mie /\ PLIC_is_enabled(mie))
    /\ ilast.op = "PLIC::disable" => ("mext" \notin mie /\ ~PLIC_is_enabled(mie))
    /\ PLIC_is_enabled(mie) <=> ("mext" \in mie)
    /\ ilast.op = "PLIC::is_enabled" => (ilast.ret <=> ("mext" \in mie))

\* C8 witness: CLINT::enable() completed from a state with only the
\* software-interrupt bit of the two set
C8_Witness ==
    /\ ilast.op = "CLINT::enable"
    /\ "msoft" \in ilast.pre_mie /\ "mtimer" \notin ilast.pre_mie
    /\ {"msoft", "mtimer"} \subseteq mie

\* C11: CLINT::enable() and CLINT::disable() are two steps on mie, the
\* software-interrupt bit first and the timer bit second: between the steps
\* the software bit has its new value and the timer bit still its old one,
\* a read made there sees exactly that, and the reverse mixed state (timer
\* new, software old) is never produced by a call.
C11_TwoStepsSoftwareFirst ==
    /\ pc.at = "enable" =>
        /\ "msoft" \in mie
        /\ ("mtimer" \in mie) <=> ("mtimer" \in pc.pre_mie)
        /\ ~("mtimer" \in mie /\ "mtimer" \notin pc.pre_mie /\ "msoft" \notin mie)
        /\ ilast.op = "CLINT::mswi_is_enabled" => ilast.ret
        /\ ilast.op = "CLINT::mtimer_is_enabled" =>
               (ilast.ret <=> ("mtimer" \in pc.pre_mie))
    /\ pc.at = "disable" =>
        /\ "msoft" \notin mie
        /\ ("mtimer" \in mie) <=> ("mtimer" \in pc.pre_mie)
        /\ ~("mtimer" \notin mie /\ "mtimer" \in pc.pre_mie /\ "msoft" \in mie)
        /\ ilast.op = "CLINT::mswi_is_enabled" => ~ilast.ret
        /\ ilast.op = "CLINT::mtimer_is_enabled" =>
               (ilast.ret <=> ("mtimer" \in pc.pre_mie))
    /\ ilast.op = "CLINT::enable" => {"msoft", "mtimer"} \subseteq mie
    /\ ilast.op = "CLINT::disable" => {"msoft", "mtimer"} \cap mie = {}

\* C11 witness: enable() was called with both bits clear, and a read between
\* its two steps found the software bit set and the timer bit still clear
C11_Witness ==
    /\ pc.at = "enable"
    /\ {"msoft", "mtimer"} \cap pc.pre_mie = {}
    /\ ilast.op = "CLINT::mtimer_is_enabled" /\ ~ilast.ret
    /\ "msoft" \in mie /\ "mtimer" \notin mie

\* the bits of mie outside S are the same before and after the step
OnlyMieBits(S) == (mie' \ S = mie \ S) /\ mip' = mip

\* C12: in every step of any interleaving of CLINT and PLIC operations,
\* mswi_enable/mswi_disable change only the software enable bit,
\* mtimer_enable/mtimer_disable only the timer enable bit, the steps of
\* CLINT::enable/disable never the external enable bit, PLIC::enable/disable
\* only the external enable bit, and none of them a pending bit.
C12_EnableDomainsIndependent ==
    [][ /\ ilast'.op \in {"CLINT::mswi_enable", "CLINT::mswi_disable"}
            => OnlyMieBits({"msoft"})
        /\ ilast'.op \in {"CLINT::mtimer_enable", "CLINT::mtimer_disable"}
            => OnlyMieBits({"mtimer"})
        /\ ilast'.op \in {"CLINT::enable:mswi_enable", "CLINT::disable:mswi_disable"}
            => OnlyMieBits({"msoft"})
        /\ ilast'.op \in {"CLINT::enable", "CLINT::disable"}
            => OnlyMieBits({"mtimer"})
        /\ ilast'.op \in {"PLIC::enable", "PLIC::disable"}
            => OnlyMieBits({"mext"})
      ]_vars

\* C12 witness: PLIC::disable() ran between the two steps of CLINT::enable()
\* with interrupts pending: it cleared the external bit and left the
\* software bit, just set, and the pending bits as they were
C12_Witness ==
    /\ pc.at = "enable"
    /\ ilast.op = "PLIC::disable"
    /\ "mext" \in ilast.pre_mie /\ "mext" \notin mie
    /\ "msoft" \in mie /\ "msoft" \notin pc.pre_mie
    /\ mip = {"msoft", "mext"} /\ mip = ilast.pre_mip

====
